---- MODULE Spec2Model ----
(***************************************************************************)
(* Model of the scaffolder action 'opa:get-env-providers'                  *)
(* (getEnvProvidersAction): one invocation of its handler, from the       *)
(* caller-identity check to the final ctx.output('envProviders', ...).     *)
(*                                                                         *)
(* Strings are sequences of tokens (the empty string is << >>), so that    *)
(* concatenation, startsWith, toLowerCase and emptiness are computed.      *)
(* Values whose JavaScript runtime type matters (catalog metadata values,  *)
(* emitted output values) are records [t |-> type, v |-> value].           *)
(***************************************************************************)
EXTENDS Integers, Sequences, FiniteSets, TLC

\* Longest list of relations on the environment entity that is explored.
MaxRels == 2

(***************************************************************************)
(* JavaScript values                                                       *)
(***************************************************************************)
JsStr(s) == [t |-> "string", v |-> s]
JsBool(b) == [t |-> "boolean", v |-> b]
JsArr(a) == [t |-> "array", v |-> a]

\* value.toString() for a string or a boolean
toString(x) ==
  IF x.t = "boolean" THEN (IF x.v THEN <<"true">> ELSE <<"false">>) ELSE x.v

\* metadata[key]?.toString() || ''
MetaStr(metadata, key) ==
  IF key \in DOMAIN metadata THEN toString(metadata[key]) ELSE << >>

\* one character class of String.prototype.toLowerCase
LowerTok(tok) ==
  CASE tok = "ECS" -> "ecs"
    [] tok = "EKS" -> "eks"
    [] tok = "Eks" -> "eks"
    [] tok = "EC2" -> "ec2"
    [] OTHER -> tok

toLowerCase(s) == [k \in DOMAIN s |-> LowerTok(s[k])]

\* String.prototype.startsWith
startsWith(s, prefix) ==
  /\ Len(s) >= Len(prefix)
  /\ SubSeq(s, 1, Len(prefix)) = prefix

RELATION_DEPENDS_ON == "dependsOn"

BaselineKeys == {"name", "env-type", "aws-account", "aws-region", "vpc"}

(***************************************************************************)
(* The catalog contents an invocation may meet                             *)
(***************************************************************************)
Without(m, key) == [k \in DOMAIN m \ {key} |-> m[k]]
WithEmpty(m, key) == [m EXCEPT ![key] = JsStr(<< >>)]

FullProvider(name, type, dir) ==
  ("name" :> JsStr(<<name>>)) @@ ("env-type" :> JsStr(<<type>>)) @@
  ("prefix" :> JsStr(<<"opa">>)) @@
  ("aws-account" :> JsStr(<<"111111111111">>)) @@
  ("aws-region" :> JsStr(<<"us-east-1">>)) @@
  ("provisioning-role" :> JsStr(<<dir, "/role">>)) @@
  ("vpc" :> JsStr(<<dir, "/vpc">>)) @@
  ("cluster-name" :> JsStr(<<dir, "/cluster">>))

Absent == [present |-> FALSE]
Entity(m, r) == [present |-> TRUE, metadata |-> m, relations |-> r]

P1Ref == <<"awsenvironmentprovider", ":default/p1">>
P2Ref == <<"awsenvironmentprovider", ":default/p2">>
CompRef == <<"component", ":default/app">>
ProviderRefs == {P1Ref, P2Ref}

P1Full == FullProvider("p1", "ECS", "/p1")
P2Full ==
  [FullProvider("p2", "ec2", "/p2") EXCEPT
     !["aws-account"] = JsStr(<<"222222222222">>),
     !["aws-region"] = JsStr(<<"eu-west-1">>)]

\* what the catalog may hold under P1Ref
P1Entities ==
  {Absent, Entity(P1Full, << >>)}
    \cup {Entity(Without(P1Full, k), << >>) : k \in BaselineKeys}

\* what the catalog may hold under P2Ref
P2Entities ==
  {Entity(P2Full, << >>),
   Entity(Without(P2Full, "provisioning-role"), << >>),
   Entity(Without(FullProvider("p2", "Eks", "/p2"), "cluster-name"), << >>)}
    \cup {Entity(WithEmpty(P2Full, k), << >>) :
            k \in {"aws-account", "aws-region", "vpc"}}

Relations ==
  {[type |-> RELATION_DEPENDS_ON, targetRef |-> P1Ref],
   [type |-> RELATION_DEPENDS_ON, targetRef |-> P2Ref],
   [type |-> RELATION_DEPENDS_ON, targetRef |-> CompRef],
   [type |-> "ownedBy", targetRef |-> P1Ref]}

RelationLists == UNION {[1..n -> Relations] : n \in 0..MaxRels}

EnvMetadatas ==
  {("name" :> JsStr(<<"Test-Environment">>)),
   ("name" :> JsStr(<<"Test-Environment">>)) @@
     ("short-name" :> JsStr(<<"dev">>)) @@
     ("deployment_requires_approval" :> JsBool(TRUE)),
   ("name" :> JsStr(<<"Test-Environment">>)) @@
     ("deployment_requires_approval" :> JsStr(<<"true">>)),
   ("name" :> JsStr(<<"Test-Environment">>)) @@
     ("short-name" :> JsStr(<<"qa">>)) @@
     ("deployment_requires_approval" :> JsStr(<<"false">>))}

EnvEntities ==
  {Absent} \cup {Entity(m, r) : m \in EnvMetadatas, r \in RelationLists}

\* the references an invocation may be given as input
EnvironmentRefs ==
  {<<"awsenvironment", ":Test-Environment">>,
   <<"awsenvironment", ":default/test-environment">>}

\* sets of parameter-store paths whose stored value is the empty string
EmptyPathSets ==
  {{}, {<<"/p1", "/vpc">>}, {<<"/p1", "/vpc", "/public-subnets">>},
   {<<"/p2", "/vpc", "/private-subnets">>}, {<<"/p1", "/role">>},
   {<<"/p1", "/cluster">>}}

BrokerError == <<"AccessDenied">>
StoreError == <<"ParameterNotFound">>

\* the errors a lookup may be rejected with: one that does not mention the
\* path and one that quotes it
StoreErrors(path) == {StoreError, path \o <<" has no value">>}

VARIABLES
  userEntity,      \* ctx.user?.entity is defined
  environmentRef,  \* ctx.input.environmentRef
  catalogEnv,      \* what the catalog holds under environmentRef
  catalogProv,     \* what the catalog holds under each provider reference
  ssmEmpty,        \* parameter-store paths holding an empty value
  pc,              \* position of the handler
  awsEnvEntity,
  deploymentParametersArray,
  idx,             \* position of the for-loop in deploymentParametersArray
  credentials,
  vpcId, publicSubnets, privateSubnets, clusterArn, assumedRoleArn,
  envProviderOutputArray,
  outputs,         \* the ctx.output(key, value) calls made, in order
  calls,           \* the collaborator calls made, in order
  err              \* the error thrown out of the handler (<< >>: none)

inputs == <<userEntity, environmentRef, catalogEnv, catalogProv, ssmEmpty>>
locals == <<credentials, vpcId, publicSubnets, privateSubnets, clusterArn,
            assumedRoleArn>>
vars == <<inputs, pc, awsEnvEntity, deploymentParametersArray, idx, locals,
          envProviderOutputArray, outputs, calls, err>>

Init ==
  /\ userEntity \in BOOLEAN
  /\ environmentRef \in EnvironmentRefs
  /\ catalogEnv \in EnvEntities
  /\ catalogProv \in [ProviderRefs -> P1Entities \cup P2Entities]
  /\ catalogProv[P1Ref] \in P1Entities
  /\ catalogProv[P2Ref] \in P2Entities
  /\ ssmEmpty \in EmptyPathSets
  /\ pc = "INIT"
  /\ awsEnvEntity = Absent
  /\ deploymentParametersArray = << >>
  /\ idx = 1
  /\ credentials = 0
  /\ vpcId = << >>
  /\ publicSubnets = << >>
  /\ privateSubnets = << >>
  /\ clusterArn = << >>
  /\ assumedRoleArn = << >>
  /\ envProviderOutputArray = << >>
  /\ outputs = << >>
  /\ calls = << >>
  /\ err = << >>

(***************************************************************************)
(* handler: identity check, environment entity, environment facts          *)
(***************************************************************************)
\* the identity check left out
HasUser_skipped == TRUE

\* ctx.user?.entity !== undefined
HasUser == userEntity

\* if (ctx.user?.entity === undefined) return
NoUser ==
  /\ pc = "INIT"
  /\ ~HasUser
  /\ pc' = "RETURNED"
  /\ UNCHANGED <<inputs, awsEnvEntity, deploymentParametersArray, idx, locals,
                 envProviderOutputArray, outputs, calls, err>>

\* the message without the reference
NotFoundError_anonymous(ref) ==
  <<"The environment entity could not be located in the catalog.">>

NotFoundError(ref) ==
  <<"The environment entity \"">> \o ref
    \o <<"\" could not be located in the catalog.">>

\* "true" === metadata['deployment_requires_approval']?.toString() || ''
ApprovalValue(metadata) ==
  IF /\ "deployment_requires_approval" \in DOMAIN metadata
     /\ toString(metadata["deployment_requires_approval"]) = <<"true">>
  THEN JsBool(TRUE)
  ELSE JsStr(<< >>)

\* the environment facts held back until the providers are resolved
EnvFacts_deferred(entity, ref) == << >>

\* the entity's name emitted as envRef instead of the input reference
EnvFacts_refFromName(entity, ref) ==
  <<[key |-> "envName", val |-> entity.metadata["name"]],
    [key |-> "envRef", val |-> entity.metadata["name"]],
    [key |-> "envDeployManualApproval", val |-> ApprovalValue(entity.metadata)],
    [key |-> "envShortName", val |-> JsStr(MetaStr(entity.metadata, "short-name"))]>>

\* schema.output.required
OutputRequired ==
  {"envName", "envShortName", "envRef", "envDeployManualApproval",
   "envProviders"}

EnvFacts(entity, ref) ==
  <<[key |-> "envName", val |-> entity.metadata["name"]],
    [key |-> "envRef", val |-> JsStr(ref)],
    [key |-> "envDeployManualApproval", val |-> ApprovalValue(entity.metadata)],
    [key |-> "envShortName", val |-> JsStr(MetaStr(entity.metadata, "short-name"))]>>

GetEntityByRef ==
  /\ pc = "INIT"
  /\ HasUser
  /\ calls' = Append(calls, [op |-> "getEntityByRef", ref |-> environmentRef])
  /\ IF ~catalogEnv.present
     THEN /\ pc' = "FAILED"
          /\ err' = NotFoundError(environmentRef)
          /\ UNCHANGED <<awsEnvEntity, outputs>>
     ELSE /\ pc' = "ENTITY_FETCHED"
          /\ awsEnvEntity' = catalogEnv
          /\ outputs' = outputs \o EnvFacts(catalogEnv, environmentRef)
          /\ err' = err
  /\ UNCHANGED <<inputs, deploymentParametersArray, idx, locals,
                 envProviderOutputArray>>

(***************************************************************************)
(* getEnvDeploymentParameters                                              *)
(***************************************************************************)
\* the filter without the test on the relation type
IsProviderRelation_anyType(envProvRel) ==
  startsWith(envProvRel.targetRef, <<"awsenvironmentprovider">>)

\* entityRelations.filter(type is dependsOn and target starts with
\* 'awsenvironmentprovider').map(targetRef)
IsProviderRelation(envProvRel) ==
  /\ envProvRel.type = RELATION_DEPENDS_ON
  /\ startsWith(envProvRel.targetRef, <<"awsenvironmentprovider">>)

RelTargetRef(envProvRel) == envProvRel.targetRef

MapSeq(f(_), s) == [k \in DOMAIN s |-> f(s[k])]

EnvProvRefs(envEntity) ==
  MapSeq(RelTargetRef, SelectSeq(envEntity.relations, IsProviderRelation))

\* catalogClient.getEntitiesByRefs: one item per requested reference
GetEntitiesByRefs(catalog, entityRefs) ==
  [k \in DOMAIN entityRefs |-> catalog[entityRefs[k]]]

\* the baseline filter without the vpc key
HasBaseline_noVpc(entity) ==
  /\ entity.present
  /\ \A key \in BaselineKeys \ {"vpc"} : key \in DOMAIN entity.metadata

\* the baseline filter testing the values instead of the keys
HasBaseline_truthy(entity) ==
  /\ entity.present
  /\ \A key \in BaselineKeys :
       /\ key \in DOMAIN entity.metadata
       /\ toString(entity.metadata[key]) # << >>
  /\ "provisioning-role" \in DOMAIN entity.metadata

\* entity && [baseline keys].every(key => key in entity.metadata)
HasBaseline(entity) ==
  /\ entity.present
  /\ \A key \in BaselineKeys : key \in DOMAIN entity.metadata

\* the two derived subnet paths taken for one another
DeployParams_swapped(entity) ==
  LET metadata == entity.metadata
      vpc == MetaStr(metadata, "vpc")
  IN [envProviderPrefix |-> MetaStr(metadata, "prefix"),
      envProviderName |-> metadata["name"].v,
      envProviderType |-> toLowerCase(MetaStr(metadata, "env-type")),
      accountId |-> MetaStr(metadata, "aws-account"),
      region |-> MetaStr(metadata, "aws-region"),
      ssmAssumeRoleArn |-> MetaStr(metadata, "provisioning-role"),
      ssmPathVpc |-> vpc,
      ssmPrivateSubnets |-> vpc \o <<"/public-subnets">>,
      ssmPublicSubnets |-> vpc \o <<"/private-subnets">>,
      ssmPathCluster |-> MetaStr(metadata, "cluster-name")]

DeployParams(entity) ==
  LET metadata == entity.metadata
      vpc == MetaStr(metadata, "vpc")
  IN [envProviderPrefix |-> MetaStr(metadata, "prefix"),
      envProviderName |-> metadata["name"].v,
      envProviderType |-> toLowerCase(MetaStr(metadata, "env-type")),
      accountId |-> MetaStr(metadata, "aws-account"),
      region |-> MetaStr(metadata, "aws-region"),
      ssmAssumeRoleArn |-> MetaStr(metadata, "provisioning-role"),
      ssmPathVpc |-> vpc,
      ssmPrivateSubnets |-> vpc \o <<"/private-subnets">>,
      ssmPublicSubnets |-> vpc \o <<"/public-subnets">>,
      ssmPathCluster |-> MetaStr(metadata, "cluster-name")]

DeploymentParams(items) == MapSeq(DeployParams, SelectSeq(items, HasBaseline))

GetEnvDeploymentParameters ==
  /\ pc = "ENTITY_FETCHED"
  /\ LET envProvRefs == EnvProvRefs(awsEnvEntity)
         items == GetEntitiesByRefs(catalogProv, envProvRefs)
     IN /\ calls' = Append(calls, [op |-> "getEntitiesByRefs",
                                    entityRefs |-> envProvRefs])
        /\ deploymentParametersArray' = DeploymentParams(items)
  /\ pc' = "RELATIONS_FILTERED"
  /\ UNCHANGED <<inputs, awsEnvEntity, idx, locals, envProviderOutputArray,
                 outputs, err>>

(***************************************************************************)
(* handler: the loop over the providers                                    *)
(***************************************************************************)
params == deploymentParametersArray[idx]

\* the loop going on with the same provider after a failure
AtLoopHead_afterFailure == pc \in {"RELATIONS_FILTERED", "EMITTED", "FAILED"}

AtLoopHead == pc \in {"RELATIONS_FILTERED", "EMITTED"}

NotConfiguredError(field, envProviderName) ==
  <<field, " not configured for environment provider: ">> \o envProviderName
    \o <<". The provider IaC deployment may have failed.">>

\* the pre-flight checks without the one on the role path
MissingField_noRole(p) ==
  CASE p.accountId = << >> -> "accountId"
    [] p.region = << >> -> "region"
    [] p.ssmPathVpc = << >> -> "ssmPathVpc"
    [] OTHER -> ""

\* the first failing pre-flight check of a provider, "" when all pass
MissingField(p) ==
  CASE p.accountId = << >> -> "accountId"
    [] p.region = << >> -> "region"
    [] p.ssmAssumeRoleArn = << >> -> "ssmAssumeRoleArn"
    [] p.ssmPathVpc = << >> -> "ssmPathVpc"
    [] OTHER -> ""

Validate ==
  /\ AtLoopHead
  /\ idx <= Len(deploymentParametersArray)
  /\ IF MissingField(params) # ""
     THEN /\ pc' = "FAILED"
          /\ err' = NotConfiguredError(MissingField(params),
                                       params.envProviderName)
     ELSE /\ pc' = "VALIDATED"
          /\ err' = err
  /\ UNCHANGED <<inputs, awsEnvEntity, deploymentParametersArray, idx, locals,
                 envProviderOutputArray, outputs, calls>>

\* number of credential-broker calls made so far
CredCalls == Cardinality({k \in DOMAIN calls : calls[k].op = "getAWScreds"})

\* the bundle of an earlier provider kept and used again
GetAWScreds_cached ==
  /\ pc = "VALIDATED"
  /\ IF credentials # 0
     THEN /\ pc' = "CREDENTIALED"
          /\ UNCHANGED <<calls, credentials, err>>
     ELSE /\ calls' = Append(calls, [op |-> "getAWScreds", idx |-> idx,
                                     accountId |-> params.accountId,
                                     region |-> params.region,
                                     prefix |-> params.envProviderPrefix,
                                     providerName |-> params.envProviderName,
                                     identity |-> userEntity])
          /\ \E ok \in BOOLEAN :
               IF ok
               THEN /\ credentials' = CredCalls + 1
                    /\ pc' = "CREDENTIALED"
                    /\ err' = err
               ELSE /\ pc' = "FAILED"
                    /\ err' = <<"Error: ">> \o BrokerError
                    /\ UNCHANGED credentials
  /\ UNCHANGED <<inputs, awsEnvEntity, deploymentParametersArray, idx,
                 vpcId, publicSubnets, privateSubnets, clusterArn,
                 assumedRoleArn, envProviderOutputArray, outputs>>

\* await getAWScreds(accountId, region, envProviderPrefix, envProviderName,
\*                   ctx.user.entity): a fresh bundle, or the broker's error
GetAWScreds ==
  /\ pc = "VALIDATED"
  /\ calls' = Append(calls, [op |-> "getAWScreds", idx |-> idx,
                             accountId |-> params.accountId,
                             region |-> params.region,
                             prefix |-> params.envProviderPrefix,
                             providerName |-> params.envProviderName,
                             identity |-> userEntity])
  /\ \E ok \in BOOLEAN :
       IF ok
       THEN /\ credentials' = CredCalls + 1
            /\ pc' = "CREDENTIALED"
            /\ err' = err
       ELSE /\ pc' = "FAILED"
            /\ err' = <<"Error: ">> \o BrokerError
            /\ UNCHANGED credentials
  /\ UNCHANGED <<inputs, awsEnvEntity, deploymentParametersArray, idx,
                 vpcId, publicSubnets, privateSubnets, clusterArn,
                 assumedRoleArn, envProviderOutputArray, outputs>>

\* the value the parameter store holds under a path
SSMValue(empty, path) ==
  IF path \in empty THEN << >> ELSE <<"value-of:">> \o path

\* the catch block's message without the caught error
PopulateError_bare(envProviderName, cause) ==
  <<"Failed to populate environment provider ">> \o envProviderName

PopulateError(envProviderName, cause) ==
  <<"Failed to populate environment provider ">> \o envProviderName
    \o <<". ", "Error: ">> \o cause

SSMCall(path) ==
  [op |-> "getSSMParameterValue", idx |-> idx, region |-> params.region,
   credentials |-> credentials, path |-> path]

\* one await getSSMParameterValue(region, credentials, path, ctx.logger)
\* inside the try block: the stored value, or the catch block's error
Lookup(path, from, to, result, rest) ==
  /\ pc = from
  /\ calls' = Append(calls, SSMCall(path))
  /\ \/ /\ result' = SSMValue(ssmEmpty, path)
        /\ pc' = to
        /\ err' = err
     \/ \E cause \in StoreErrors(path) :
          /\ pc' = "FAILED"
          /\ err' = PopulateError(params.envProviderName, cause)
          /\ UNCHANGED result
  /\ UNCHANGED rest
  /\ UNCHANGED <<inputs, awsEnvEntity, deploymentParametersArray, idx,
                 credentials, envProviderOutputArray, outputs>>

ResolveVpcId ==
  /\ pc = "CREDENTIALED"
  /\ Lookup(params.ssmPathVpc, "CREDENTIALED", "VPC_RESOLVED", vpcId,
            <<publicSubnets, privateSubnets, clusterArn, assumedRoleArn>>)

\* the private-subnets path looked up in the place of the public one
ResolvePublicSubnets_private ==
  /\ pc = "VPC_RESOLVED"
  /\ Lookup(params.ssmPrivateSubnets, "VPC_RESOLVED", "PUBLIC_RESOLVED",
            publicSubnets,
            <<vpcId, privateSubnets, clusterArn, assumedRoleArn>>)

ResolvePublicSubnets ==
  /\ pc = "VPC_RESOLVED"
  /\ Lookup(params.ssmPublicSubnets, "VPC_RESOLVED", "PUBLIC_RESOLVED",
            publicSubnets,
            <<vpcId, privateSubnets, clusterArn, assumedRoleArn>>)

ResolvePrivateSubnets ==
  /\ pc = "PUBLIC_RESOLVED"
  /\ Lookup(params.ssmPrivateSubnets, "PUBLIC_RESOLVED", "PRIVATE_RESOLVED",
            privateSubnets,
            <<vpcId, publicSubnets, clusterArn, assumedRoleArn>>)

\* the cluster looked up for every provider type
NeedsCluster_always(envProviderType) == TRUE

\* envProviderType === 'ecs' || envProviderType === 'eks'
NeedsCluster(envProviderType) ==
  envProviderType = <<"ecs">> \/ envProviderType = <<"eks">>

ResolveClusterArn ==
  /\ pc = "PRIVATE_RESOLVED"
  /\ NeedsCluster(params.envProviderType)
  /\ Lookup(params.ssmPathCluster, "PRIVATE_RESOLVED", "CLUSTER_RESOLVED",
            clusterArn,
            <<vpcId, publicSubnets, privateSubnets, assumedRoleArn>>)

\* for a type other than ecs and eks the cluster lookup is skipped, its
\* result is '' and the role lookup follows at once
ResolveAssumedRoleArn ==
  \/ /\ pc = "CLUSTER_RESOLVED"
     /\ Lookup(params.ssmAssumeRoleArn, "CLUSTER_RESOLVED", "PARAMETERIZED",
               assumedRoleArn,
               <<vpcId, publicSubnets, privateSubnets, clusterArn>>)
  \/ /\ pc = "PRIVATE_RESOLVED"
     /\ ~NeedsCluster(params.envProviderType)
     /\ clusterArn' = << >>
     /\ Lookup(params.ssmAssumeRoleArn, "PRIVATE_RESOLVED", "PARAMETERIZED",
               assumedRoleArn, <<vpcId, publicSubnets, privateSubnets>>)

\* schema.output.properties.envProviders.items.required
EnvProviderRequired ==
  {"envProviderName", "envProviderType", "envProviderPrefix", "account",
   "region", "vpcId", "publicSubnets", "privateSubnets", "assumedRoleArn"}

EnvProvider ==
  [envProviderName |-> params.envProviderName,
   envProviderType |-> params.envProviderType,
   envProviderPrefix |-> params.envProviderPrefix,
   accountId |-> params.accountId,
   region |-> params.region,
   vpcId |-> vpcId,
   publicSubnets |-> publicSubnets,
   privateSubnets |-> privateSubnets,
   clusterArn |-> clusterArn,
   assumedRoleArn |-> assumedRoleArn]

\* the list emitted after every push instead of once at the end
Push_emitEach ==
  /\ pc = "PARAMETERIZED"
  /\ envProviderOutputArray' = Append(envProviderOutputArray, EnvProvider)
  /\ outputs' = Append(outputs, [key |-> "envProviders",
                                 val |-> JsArr(envProviderOutputArray')])
  /\ idx' = idx + 1
  /\ pc' = "EMITTED"
  /\ UNCHANGED <<inputs, awsEnvEntity, deploymentParametersArray, locals,
                 calls, err>>

\* the descriptor put at the front of the list
Push_prepend ==
  /\ pc = "PARAMETERIZED"
  /\ envProviderOutputArray' = <<EnvProvider>> \o envProviderOutputArray
  /\ idx' = idx + 1
  /\ pc' = "EMITTED"
  /\ UNCHANGED <<inputs, awsEnvEntity, deploymentParametersArray, locals,
                 outputs, calls, err>>

\* envProviderOutputArray.push(envProvider), then the next iteration
Push ==
  /\ pc = "PARAMETERIZED"
  /\ envProviderOutputArray' = Append(envProviderOutputArray, EnvProvider)
  /\ idx' = idx + 1
  /\ pc' = "EMITTED"
  /\ UNCHANGED <<inputs, awsEnvEntity, deploymentParametersArray, locals,
                 outputs, calls, err>>

\* the list emitted at the loop head before the loop has run out
Finish_early ==
  /\ AtLoopHead
  /\ outputs' = Append(outputs, [key |-> "envProviders",
                                 val |-> JsArr(envProviderOutputArray)])
  /\ pc' = "DONE"
  /\ UNCHANGED <<inputs, awsEnvEntity, deploymentParametersArray, idx, locals,
                 envProviderOutputArray, calls, err>>

\* ctx.output('envProviders', envProviderOutputArray)
Finish ==
  /\ AtLoopHead
  /\ idx > Len(deploymentParametersArray)
  /\ outputs' = Append(outputs, [key |-> "envProviders",
                                 val |-> JsArr(envProviderOutputArray)])
  /\ pc' = "DONE"
  /\ UNCHANGED <<inputs, awsEnvEntity, deploymentParametersArray, idx, locals,
                 envProviderOutputArray, calls, err>>

(***************************************************************************)
(* Properties                                                              *)
(***************************************************************************)
Contains(s, t) ==
  \E k \in 0..(Len(s) - Len(t)) : SubSeq(s, k + 1, k + Len(t)) = t

OutputKeys == [k \in DOMAIN outputs |-> outputs[k].key]
Emitted(key) == \E k \in DOMAIN outputs : outputs[k].key = key

CallsOf(op) == {k \in DOMAIN calls : calls[k].op = op}
ProviderCalls == CallsOf("getAWScreds") \cup CallsOf("getSSMParameterValue")
LastCallOp == IF calls = << >> THEN "" ELSE calls[Len(calls)].op

\* the handler threw after the provider list was built
FailedInLoop == pc = "FAILED" /\ CallsOf("getEntitiesByRefs") # {}

\* C1 as stated: in every run that ends FAILED inside the provider loop no
\* output key at all has been emitted through ctx.output.
C1_NothingEmittedOnLoopFailure == FailedInLoop => outputs = << >>

\* C1 as amended: in every run that ends FAILED inside the provider loop the
\* envProviders key has not been emitted, and the outputs made are exactly
\* the four environment facts envName, envRef, envDeployManualApproval and
\* envShortName, which the handler emits before the loop starts.
C1_OnlyEnvFactsOnLoopFailure ==
  FailedInLoop =>
    OutputKeys = <<"envName", "envRef", "envDeployManualApproval",
                   "envShortName">>

C1_Witness ==
  /\ FailedInLoop
  /\ Len(outputs) = 4
  /\ Len(envProviderOutputArray) = 1

\* C2: when credential acquisition or a parameter lookup fails for the k-th
\* provider, the envProviders output is never emitted, although the
\* descriptors of the providers before k are complete in memory.
C2_NoPartialEmission ==
  (pc = "FAILED" /\ LastCallOp \in {"getAWScreds", "getSSMParameterValue"})
    => /\ ~Emitted("envProviders")
       /\ Len(envProviderOutputArray) = idx - 1

C2_Witness ==
  /\ pc = "FAILED"
  /\ LastCallOp = "getAWScreds"
  /\ idx = 2
  /\ Len(envProviderOutputArray) = 1
  /\ envProviderOutputArray[1].vpcId # << >>

C3_EmptyFields(p) ==
  {f \in {"accountId", "region", "ssmAssumeRoleArn", "ssmPathVpc"} :
     p[f] = << >>}

\* C3: a provider of the metadata list with an empty accountId, region, role
\* path or vpc path never gets a credential-broker call or a parameter
\* lookup, the invocation never completes, and when the loop fails at that
\* provider the error names the provider and one of its empty fields.
C3_ValidationBeforeCredentials ==
  \A k \in DOMAIN deploymentParametersArray :
    C3_EmptyFields(deploymentParametersArray[k]) # {} =>
      /\ \A c \in ProviderCalls : calls[c].idx # k
      /\ pc # "DONE"
      /\ idx <= k
      /\ (pc = "FAILED" /\ idx = k) =>
           /\ err[1] \in C3_EmptyFields(deploymentParametersArray[k])
           /\ err[2] = " not configured for environment provider: "
           /\ Contains(err, deploymentParametersArray[k].envProviderName)

C3_Witness ==
  /\ pc = "FAILED"
  /\ idx = 2
  /\ C3_EmptyFields(deploymentParametersArray[2]) # {}
  /\ ProviderCalls # {}

\* C4: without a caller identity nothing is emitted and no collaborator is
\* called.
C4_NoIdentityShortCircuits ==
  ~userEntity => /\ outputs = << >>
                 /\ calls = << >>
                 /\ pc \in {"INIT", "RETURNED"}

C4_Witness == pc = "RETURNED" /\ catalogEnv.present

\* C5: when the catalog has no entity for environmentRef the invocation
\* fails with an error naming the reference, nothing has been emitted, and
\* the only collaborator call made is the getEntityByRef that found nothing.
C5_NotFoundIsFatal ==
  (userEntity /\ ~catalogEnv.present /\ pc # "INIT") =>
    /\ pc = "FAILED"
    /\ Contains(err, environmentRef)
    /\ Contains(err, <<"\" could not be located in the catalog.">>)
    /\ outputs = << >>
    /\ calls = <<[op |-> "getEntityByRef", ref |-> environmentRef]>>

C5_Witness == pc = "FAILED" /\ ~catalogEnv.present

\* the environment's approval flag stringifies to "true"
C6_FlagIsTrue ==
  /\ "deployment_requires_approval" \in DOMAIN awsEnvEntity.metadata
  /\ awsEnvEntity.metadata["deployment_requires_approval"]
       \in {JsStr(<<"true">>), JsBool(TRUE)}

\* C6: envDeployManualApproval is always emitted as a boolean, true exactly
\* when the deployment_requires_approval flag stringifies to "true" and the
\* boolean false when the flag is absent or has another value.
C6_ApprovalIsBoolean ==
  \A k \in DOMAIN outputs :
    outputs[k].key = "envDeployManualApproval" =>
      /\ outputs[k].val.t = "boolean"
      /\ outputs[k].val.v <=> C6_FlagIsTrue

C7_Populated(d) ==
  /\ d.vpcId # << >>
  /\ d.publicSubnets # << >>
  /\ d.privateSubnets # << >>
  /\ d.assumedRoleArn # << >>

\* C7: every descriptor emitted in envProviders has a non-empty vpcId,
\* publicSubnets, privateSubnets and assumedRoleArn, whatever value
\* (the empty string included) a successful lookup returned.
C7_EmittedDescriptorsPopulated ==
  \A k \in DOMAIN outputs :
    outputs[k].key = "envProviders" =>
      \A j \in DOMAIN outputs[k].val.v : C7_Populated(outputs[k].val.v[j])

C8_ClusterTypes == {<<"ecs">>, <<"eks">>}

\* C8: for a provider whose lower-cased type is neither ecs nor eks the
\* cluster path is never looked up (at most four lookups are made for it)
\* and its descriptor's clusterArn is the empty string, so a non-empty
\* clusterArn only occurs on descriptors of type ecs or eks.
C8_ClusterOnlyForEcsEks ==
  /\ \A k \in DOMAIN deploymentParametersArray :
       deploymentParametersArray[k].envProviderType \notin C8_ClusterTypes =>
         /\ \A c \in CallsOf("getSSMParameterValue") :
              calls[c].idx = k =>
                calls[c].path # deploymentParametersArray[k].ssmPathCluster
         /\ Cardinality({c \in CallsOf("getSSMParameterValue") :
                           calls[c].idx = k}) <= 4
  /\ \A j \in DOMAIN envProviderOutputArray :
       envProviderOutputArray[j].clusterArn # << >> =>
         envProviderOutputArray[j].envProviderType \in C8_ClusterTypes
  /\ \A k \in DOMAIN outputs :
       outputs[k].key = "envProviders" =>
         \A j \in DOMAIN outputs[k].val.v :
           outputs[k].val.v[j].envProviderType \notin C8_ClusterTypes =>
             outputs[k].val.v[j].clusterArn = << >>

C8_Witness ==
  /\ pc = "DONE"
  /\ Len(envProviderOutputArray) = 2
  /\ envProviderOutputArray[1].envProviderType = <<"ecs">>
  /\ envProviderOutputArray[1].clusterArn # << >>
  /\ envProviderOutputArray[2].envProviderType = <<"ec2">>

\* the provider entities the batch fetch returned, one per filtered relation
C9_Fetched ==
  LET rels == awsEnvEntity.relations
      provs == SelectSeq(rels, LAMBDA r : r.type = "dependsOn"
                                 /\ r.targetRef[1] = "awsenvironmentprovider")
  IN [k \in DOMAIN provs |-> catalogProv[provs[k].targetRef]]

C9_Excluded(entity) ==
  \/ ~entity.present
  \/ \E key \in {"name", "env-type", "aws-account", "aws-region", "vpc"} :
       key \notin DOMAIN entity.metadata

\* C9: a fetched provider entity that is absent or lacks one of the keys
\* name, env-type, aws-account, aws-region, vpc is not in the metadata list
\* (the list has one record per other entity, carrying that entity's name),
\* no credential call or lookup is made outside the list, and building the
\* list raises no error.
C9_SilentExclusion ==
  CallsOf("getEntitiesByRefs") # {} =>
    LET kept == SelectSeq(C9_Fetched, LAMBDA e : ~C9_Excluded(e))
    IN /\ Len(deploymentParametersArray) = Len(kept)
       /\ \A k \in DOMAIN deploymentParametersArray :
            deploymentParametersArray[k].envProviderName
              = kept[k].metadata["name"].v
       /\ \A c \in ProviderCalls :
            calls[c].idx \in DOMAIN deploymentParametersArray
       /\ pc = "RELATIONS_FILTERED" => err = << >>
       /\ (\A k \in DOMAIN kept : C3_EmptyFields(DeployParams(kept[k])) = {})
            => err \in {<< >>, <<"Error: ">> \o BrokerError}
                 \/ Contains(err, <<"Failed to populate environment provider ">>)

C9_Witness ==
  /\ pc = "DONE"
  /\ Len(C9_Fetched) = 2
  /\ C9_Excluded(C9_Fetched[1])
  /\ Len(envProviderOutputArray) = 1

C10_ProviderRelations ==
  {k \in DOMAIN awsEnvEntity.relations :
     /\ awsEnvEntity.relations[k].type = "dependsOn"
     /\ awsEnvEntity.relations[k].targetRef[1] = "awsenvironmentprovider"}

\* C10: for an environment entity without any depends-on relation to a
\* provider (relations of other types or to other kinds included) the
\* invocation does not fail, makes no credential-broker call and no
\* parameter lookup, and ends with envProviders emitted as the empty list.
C10_NoProvidersEmptyList ==
  (awsEnvEntity.present /\ C10_ProviderRelations = {}) =>
    /\ pc \in {"ENTITY_FETCHED", "RELATIONS_FILTERED", "DONE"}
    /\ err = << >>
    /\ ProviderCalls = {}
    /\ pc = "DONE" <=> Emitted("envProviders")
    /\ pc = "DONE" =>
         outputs[Len(outputs)] = [key |-> "envProviders", val |-> JsArr(<< >>)]

C10_Witness ==
  /\ pc = "DONE"
  /\ awsEnvEntity.relations # << >>
  /\ C10_ProviderRelations = {}

\* the fetched provider entities that pass the baseline filter, in the
\* order of the environment's depends-on provider relations
C11_Kept == SelectSeq(C9_Fetched, LAMBDA e : ~C9_Excluded(e))

\* C11: on success envProviders holds exactly one descriptor per provider
\* entity that passed the baseline filter, in the relative order of the
\* environment's depends-on provider relations: the j-th descriptor carries
\* the name, account and region of the j-th surviving entity.
C11_OneDescriptorPerSurvivorInOrder ==
  pc = "DONE" =>
    LET out == outputs[Len(outputs)]
    IN /\ out.key = "envProviders"
       /\ out.val.t = "array"
       /\ Len(out.val.v) = Len(C11_Kept)
       /\ \A j \in DOMAIN out.val.v :
            /\ out.val.v[j].envProviderName = C11_Kept[j].metadata["name"].v
            /\ out.val.v[j].accountId
                 = C11_Kept[j].metadata["aws-account"].v
            /\ out.val.v[j].region = C11_Kept[j].metadata["aws-region"].v

C11_Witness ==
  /\ pc = "DONE"
  /\ Len(envProviderOutputArray) = 2
  /\ envProviderOutputArray[1].envProviderName = <<"p2">>
  /\ envProviderOutputArray[2].envProviderName = <<"p1">>
  /\ Len(C9_Fetched) = 2

C12_CallsFor(op, k) == {c \in CallsOf(op) : calls[c].idx = k}

\* C12: when a provider step has failed at index k, the call that failed is
\* the last collaborator call of the invocation, no provider after k has
\* received a credential-broker call or a lookup, and no call was repeated:
\* every provider has at most one credential call and at most five lookups.
C12_NothingAfterFailure ==
  FailedInLoop =>
    /\ \A c \in ProviderCalls : calls[c].idx <= idx
    /\ \A k \in DOMAIN deploymentParametersArray :
         /\ Cardinality(C12_CallsFor("getAWScreds", k)) <= 1
         /\ Cardinality(C12_CallsFor("getSSMParameterValue", k)) <= 5
         /\ k > idx => C12_CallsFor("getAWScreds", k) = {}
                         /\ C12_CallsFor("getSSMParameterValue", k) = {}
    /\ Cardinality(CallsOf("getEntityByRef")) = 1
    /\ Cardinality(CallsOf("getEntitiesByRefs")) = 1

C12_Witness ==
  /\ FailedInLoop
  /\ idx = 1
  /\ Len(deploymentParametersArray) = 2
  /\ LastCallOp = "getSSMParameterValue"

\* the credential call and the lookups made for the provider at index k,
\* in the order they were made
C13_CallsOfProvider(k) ==
  SelectSeq(calls, LAMBDA c :
    /\ c.op \in {"getAWScreds", "getSSMParameterValue"}
    /\ c.idx = k)

\* the calls a fully resolved provider receives, in order
C13_Expected(p) ==
  <<[op |-> "getAWScreds", path |-> << >>],
    [op |-> "getSSMParameterValue", path |-> p.ssmPathVpc],
    [op |-> "getSSMParameterValue", path |-> p.ssmPublicSubnets],
    [op |-> "getSSMParameterValue", path |-> p.ssmPrivateSubnets]>>
  \o (IF p.envProviderType \in C8_ClusterTypes
      THEN <<[op |-> "getSSMParameterValue", path |-> p.ssmPathCluster]>>
      ELSE << >>)
  \o <<[op |-> "getSSMParameterValue", path |-> p.ssmAssumeRoleArn]>>

\* C13: the calls made for one provider are, one after the other, a prefix
\* of: credential call, vpc id, public subnets, private subnets, cluster arn
\* (only for ecs and eks), assumed role arn; the calls of the whole
\* invocation are grouped by provider in list order, and a provider the
\* loop has left behind received every one of its calls.
C13_SequentialFixedOrder ==
  /\ \A k \in DOMAIN deploymentParametersArray :
       LET cs == C13_CallsOfProvider(k)
           ex == C13_Expected(deploymentParametersArray[k])
       IN /\ Len(cs) <= Len(ex)
          /\ \A j \in DOMAIN cs :
               /\ cs[j].op = ex[j].op
               /\ cs[j].op = "getSSMParameterValue" => cs[j].path = ex[j].path
          /\ k < idx => Len(cs) = Len(ex)
          /\ k > idx => Len(cs) = 0
  /\ \A a, b \in ProviderCalls : a < b => calls[a].idx <= calls[b].idx

C13_Witness ==
  /\ pc = "DONE"
  /\ Len(deploymentParametersArray) = 2
  /\ Len(C13_CallsOfProvider(1)) = 6
  /\ Len(C13_CallsOfProvider(2)) = 5

\* the ordinal of a credential call among the credential calls: the bundle
\* it returned
C14_Bundle(c) == Cardinality({x \in CallsOf("getAWScreds") : x <= c})

\* C14: a provider gets at most one credential-broker call, exactly one once
\* it is past the call, made with its own accountId, region, prefix and name
\* and the caller's identity; every lookup for a provider is made with the
\* bundle that provider's own credential call returned and with that
\* provider's region.
C14_FreshCredentialsPerProvider ==
  \A k \in DOMAIN deploymentParametersArray :
    LET p == deploymentParametersArray[k]
        creds == C12_CallsFor("getAWScreds", k)
    IN /\ Cardinality(creds) <= 1
       /\ (k < idx \/ (k = idx /\ pc \in {"CREDENTIALED", "VPC_RESOLVED",
             "PUBLIC_RESOLVED", "PRIVATE_RESOLVED", "CLUSTER_RESOLVED",
             "PARAMETERIZED"})) => Cardinality(creds) = 1
       /\ \A c \in creds :
            /\ calls[c].accountId = p.accountId
            /\ calls[c].region = p.region
            /\ calls[c].prefix = p.envProviderPrefix
            /\ calls[c].providerName = p.envProviderName
            /\ calls[c].identity = userEntity
       /\ \A s \in C12_CallsFor("getSSMParameterValue", k) :
            /\ calls[s].region = p.region
            /\ \E c \in creds :
                 c < s /\ calls[s].credentials = C14_Bundle(c)

C14_Witness ==
  /\ pc = "DONE"
  /\ Len(envProviderOutputArray) = 2
  /\ envProviderOutputArray[1].region # envProviderOutputArray[2].region
  /\ Cardinality(CallsOf("getAWScreds")) = 2

\* C15: a credential-broker failure for a provider reaches the caller as an
\* error that names that provider.
C15_CredentialFailureNamesProvider ==
  (pc = "FAILED" /\ LastCallOp = "getAWScreds") =>
    Contains(err, deploymentParametersArray[idx].envProviderName)

\* a lookup of the provider at idx was the last call and it failed
C16_LookupFailed ==
  /\ pc = "FAILED"
  /\ LastCallOp = "getSSMParameterValue"
  /\ calls[Len(calls)].idx = idx

\* C16 as stated: the error of a failed lookup carries the provider's name,
\* the path whose lookup failed and the underlying cause.
C16_LookupFailureNamesProviderPathCause ==
  C16_LookupFailed =>
    /\ Contains(err, deploymentParametersArray[idx].envProviderName)
    /\ Contains(err, calls[Len(calls)].path)
    /\ \E cause \in StoreErrors(calls[Len(calls)].path) : Contains(err, cause)

\* C16 as amended: the error of a failed lookup is the message "Failed to
\* populate environment provider", the provider's name and the stringified
\* cause (the path only if the cause's own message quotes it), and it aborts
\* the resolution: envProviders is not emitted.
C16_LookupFailureNamesProviderAndCause ==
  C16_LookupFailed =>
    /\ \E cause \in StoreErrors(calls[Len(calls)].path) :
         err = <<"Failed to populate environment provider ">>
                 \o deploymentParametersArray[idx].envProviderName
                 \o <<". ", "Error: ">> \o cause
    /\ ~Emitted("envProviders")

C16_Witness ==
  /\ C16_LookupFailed
  /\ idx = 2
  /\ calls[Len(calls)].path # << >>
  /\ ~Contains(err, calls[Len(calls)].path)
  /\ Contains(err, <<"p2">>)

\* the state of the invocation's state machine a handler position is in:
\* between the credential call and the last lookup it is CREDENTIALED
C17_Phase(p) ==
  IF p \in {"VPC_RESOLVED", "PUBLIC_RESOLVED", "PRIVATE_RESOLVED",
            "CLUSTER_RESOLVED"}
  THEN "CREDENTIALED"
  ELSE p

C17_Forward ==
  {<<"INIT", "ENTITY_FETCHED">>, <<"INIT", "FAILED">>,
   <<"ENTITY_FETCHED", "RELATIONS_FILTERED">>,
   <<"RELATIONS_FILTERED", "VALIDATED">>, <<"RELATIONS_FILTERED", "FAILED">>,
   <<"RELATIONS_FILTERED", "DONE">>,
   <<"VALIDATED", "CREDENTIALED">>, <<"VALIDATED", "FAILED">>,
   <<"CREDENTIALED", "CREDENTIALED">>, <<"CREDENTIALED", "PARAMETERIZED">>,
   <<"CREDENTIALED", "FAILED">>,
   <<"PARAMETERIZED", "EMITTED">>,
   <<"EMITTED", "VALIDATED">>, <<"EMITTED", "FAILED">>, <<"EMITTED", "DONE">>}

C18_DerivedSubnetPaths ==
  CallsOf("getEntitiesByRefs") # {} =>
    /\ Len(deploymentParametersArray) = Len(C11_Kept)
    /\ \A k \in DOMAIN deploymentParametersArray :
         LET v == C11_Kept[k].metadata["vpc"].v
             pub == v \o <<"/public-subnets">>
             priv == v \o <<"/private-subnets">>
             cs == C13_CallsOfProvider(k)
         IN /\ deploymentParametersArray[k].ssmPathVpc = v
            /\ deploymentParametersArray[k].ssmPublicSubnets = pub
            /\ deploymentParametersArray[k].ssmPrivateSubnets = priv
            /\ Len(cs) >= 3 => cs[3].path = pub /\ cs[3].path # v
            /\ Len(cs) >= 4 => cs[4].path = priv /\ cs[4].path # v
            /\ k \in DOMAIN envProviderOutputArray =>
                 /\ envProviderOutputArray[k].publicSubnets
                      = SSMValue(ssmEmpty, pub)
                 /\ envProviderOutputArray[k].privateSubnets
                      = SSMValue(ssmEmpty, priv)

C18_Witness ==
  /\ pc = "DONE"
  /\ Len(envProviderOutputArray) = 1
  /\ deploymentParametersArray[1].ssmPathVpc = <<"/p1", "/vpc">>
  /\ envProviderOutputArray[1].privateSubnets
       = <<"value-of:", "/p1", "/vpc", "/private-subnets">>

\* C19: every descriptor appended to envProviders has every key the output
\* schema requires of an envProviders item.
C19_DescriptorHasRequiredKeys ==
  \A j \in DOMAIN envProviderOutputArray :
    EnvProviderRequired \subseteq DOMAIN envProviderOutputArray[j]

\* a provider entity the baseline filter keeps and pre-flight validation
\* rejects: all five keys, but an empty account, region or vpc, or no
\* provisioning-role key
C20_KeptButInvalid(entity) ==
  /\ ~C9_Excluded(entity)
  /\ \/ \E key \in {"aws-account", "aws-region", "vpc"} :
          entity.metadata[key].v = << >>
     \/ "provisioning-role" \notin DOMAIN entity.metadata

\* C20: a provider entity with the five baseline keys but an empty
\* aws-account, aws-region or vpc, or without the provisioning-role key, is
\* in the metadata list at its place; the invocation then never completes,
\* the loop never gets past it, and when the loop fails at it the error is a
\* "not configured" error naming it, raised after every earlier provider
\* got its credential call and its lookups and was appended.
C20_PresenceVersusEmptiness ==
  CallsOf("getEntitiesByRefs") # {} =>
    \A k \in DOMAIN C11_Kept :
      C20_KeptButInvalid(C11_Kept[k]) =>
        /\ k \in DOMAIN deploymentParametersArray
        /\ deploymentParametersArray[k].envProviderName
             = C11_Kept[k].metadata["name"].v
        /\ pc # "DONE"
        /\ idx <= k
        /\ C12_CallsFor("getAWScreds", k) = {}
        /\ (pc = "FAILED" /\ idx = k) =>
             /\ err[2] = " not configured for environment provider: "
             /\ Contains(err, C11_Kept[k].metadata["name"].v)
             /\ Len(envProviderOutputArray) = k - 1
             /\ \A j \in 1..(k - 1) :
                  /\ Cardinality(C12_CallsFor("getAWScreds", j)) = 1
                  /\ Cardinality(C12_CallsFor("getSSMParameterValue", j)) >= 4

C20_Witness ==
  /\ pc = "FAILED"
  /\ idx = 2
  /\ Len(C11_Kept) = 2
  /\ C20_KeptButInvalid(C11_Kept[2])
  /\ "provisioning-role" \notin DOMAIN C11_Kept[2].metadata
  /\ Len(envProviderOutputArray) = 1

C21_Emissions(key) == {k \in DOMAIN outputs : outputs[k].key = key}

\* C21: in an invocation that reached DONE each of the five output keys
\* envName, envRef, envDeployManualApproval, envShortName and envProviders
\* has been emitted exactly once and nothing else was emitted; envProviders
\* was emitted last, with the list as it is after the final provider was
\* appended; and envRef is the input environmentRef unchanged.
C21_FiveKeysOnceProvidersLast ==
  pc = "DONE" =>
    /\ \A key \in OutputRequired : Cardinality(C21_Emissions(key)) = 1
    /\ Len(outputs) = 5
    /\ outputs[Len(outputs)].key = "envProviders"
    /\ outputs[Len(outputs)].val = JsArr(envProviderOutputArray)
    /\ Len(envProviderOutputArray) = Len(deploymentParametersArray)
    /\ \A k \in C21_Emissions("envRef") :
         outputs[k].val = JsStr(environmentRef)

C21_Witness ==
  /\ pc = "DONE"
  /\ environmentRef = <<"awsenvironment", ":default/test-environment">>
  /\ Len(envProviderOutputArray) = 2
  /\ Len(outputs) = 5

Next ==
  \/ NoUser
  \/ GetEntityByRef
  \/ GetEnvDeploymentParameters
  \/ Validate
  \/ GetAWScreds
  \/ ResolveVpcId
  \/ ResolvePublicSubnets
  \/ ResolvePrivateSubnets
  \/ ResolveClusterArn
  \/ ResolveAssumedRoleArn
  \/ Push
  \/ Finish

Spec == Init /\ [][Next]_vars

\* every await of the handler eventually settles and the handler goes on
FairSpec == Spec /\ WF_vars(Next)
====
